---- MODULE Spec2Model ----
(***************************************************************************)
(* Cross-catalog track matching of backend/main.py: the tokenizer          *)
(* (normalize_string, create_token_set), the similarity scorer             *)
(* (subset_similarity) and find_equivalent_links with its nested           *)
(* process_results (classifier and ranker), one provider after the other.  *)
(*                                                                         *)
(* A Python str is a sequence of one-character strings, None is the value  *)
(* NoneStr (for a str) or NoneInt (for an int), a similarity m/n is the    *)
(* record [num |-> m, den |-> n] compared by cross-multiplication, and a   *)
(* penalty is counted in hundredths (0.05 is 5, 0.1 is 10).                *)
(***************************************************************************)
EXTENDS Integers, Sequences, FiniteSets, TLC

\* ------------------------------------------------------------------ values

NoneStr == <<"None">>

NoneInt == -1

\* Python truthiness of an Optional[str] and of an Optional[int].
TruthyStr(s) == s # NoneStr /\ s # <<>>

TruthyInt(n) == n # NoneInt /\ n # 0

\* `s or ''`
OrEmpty(s) == IF TruthyStr(s) THEN s ELSE <<>>

RangeOf(seq) == {seq[i] : i \in 1..Len(seq)}

Abs(n) == IF n < 0 THEN -n ELSE n

\* ------------------------------------------------------------------ characters

UpperOf == [a |-> "A", b |-> "B", c |-> "C", d |-> "D", e |-> "E", f |-> "F",
            i |-> "I", l |-> "L", s |-> "S", t |-> "T", v |-> "V", x |-> "X"]

\* the letter U+00DF (sharp s): it is lower case, str.lower() leaves it as it is, and
\* it has no upper-case letter of its own (str.upper() writes "SS")
SharpS == "sharp s"

Uppers == {UpperOf[k] : k \in DOMAIN UpperOf}

\* str.lower() on one character
LowerChar(c) == IF c \in Uppers THEN CHOOSE k \in DOMAIN UpperOf : UpperOf[k] = c ELSE c

\* the characters of the model's alphabet that are neither \w nor \s
Punctuation == {"(", ")", "[", "]", "-", ".", "&", ",", "'", "!"}

IsSpace(c) == c = " "

\* [^\w\s]
IsPunct(c) == c \in Punctuation

IsBracket(c) == c \in {"(", ")", "[", "]"}

\* ------------------------------------------------------------------ str operations

Lower(s) == [i \in 1..Len(s) |-> LowerChar(s[i])]

RECURSIVE LStrip(_)
LStrip(s) == IF s # <<>> /\ IsSpace(Head(s)) THEN LStrip(Tail(s)) ELSE s

RECURSIVE RStrip(_)
RStrip(s) == IF s # <<>> /\ IsSpace(s[Len(s)]) THEN RStrip(SubSeq(s, 1, Len(s) - 1)) ELSE s

\* str.strip()
Strip(s) == RStrip(LStrip(s))

\* re.sub(r'\s+', ' ', s)
RECURSIVE CollapseSpaces(_)
CollapseSpaces(s) ==
    IF s = <<>> THEN <<>>
    ELSE IF IsSpace(Head(s))
         THEN <<" ">> \o CollapseSpaces(LStrip(s))
         ELSE <<Head(s)>> \o CollapseSpaces(Tail(s))

\* the first whitespace-free run of a string that starts with one
RECURSIVE FirstWord(_)
FirstWord(s) ==
    IF s = <<>> \/ IsSpace(Head(s)) THEN <<>>
    ELSE <<Head(s)>> \o FirstWord(Tail(s))

\* str.split(): the whitespace-separated words, no empty ones
RECURSIVE Split(_)
Split(s) ==
    LET t == LStrip(s)
        w == FirstWord(t)
    IN  IF t = <<>> THEN <<>>
        ELSE <<w>> \o Split(SubSeq(t, Len(w) + 1, Len(t)))

\* `word in s` for two str
Contains(s, word) ==
    \E i \in 0..(Len(s) - Len(word)) : SubSeq(s, i + 1, i + Len(word)) = word

\* ------------------------------------------------------------------ tokenizer

normalize_string(s) ==
    IF s = NoneStr THEN <<>>
    ELSE LET lowered == Lower(s)
             nopunct == SelectSeq(lowered, LAMBDA c : ~IsPunct(c))
         IN  Strip(CollapseSpaces(nopunct))

stop_words == { <<"f","e","a","t">>, <<"f","e","a","t","u","r","i","n","g">>,
                <<"f","t">>, <<"f","t",".">>, <<"v","s">>, <<"v","s",".">>,
                <<"w","i","t","h">>, <<"a","n","d">>, <<"&">>, <<"x">> }

create_token_set(title, artist, album) ==
    LET combined == Strip(OrEmpty(title) \o <<" ">> \o OrEmpty(artist)
                          \o <<" ">> \o OrEmpty(album))
        unbracketed == SelectSeq(combined, LAMBDA c : ~IsBracket(c))
        tokens == Split(normalize_string(unbracketed))
        filtered_tokens == SelectSeq(tokens, LAMBDA t : t # <<>> /\ t \notin stop_words)
    IN  IF combined = <<>> THEN {} ELSE RangeOf(filtered_tokens)

\* ------------------------------------------------------------------ similarity scorer

\* subset_similarity dividing by the tokens of both sets, as jaccard_similarity does
subset_similarity_OverUnion(source_tokens, candidate_tokens, min_candidate_tokens) ==
    IF candidate_tokens = {} THEN [num |-> 0, den |-> 1]
    ELSE IF Cardinality(candidate_tokens) < min_candidate_tokens THEN [num |-> 0, den |-> 1]
    ELSE [num |-> Cardinality(candidate_tokens \cap source_tokens),
          den |-> Cardinality(candidate_tokens \cup source_tokens)]

\* subset_similarity without the minimum of lines 459-460
subset_similarity_NoMinimum(source_tokens, candidate_tokens, min_candidate_tokens) ==
    IF candidate_tokens = {} THEN [num |-> 0, den |-> 1]
    ELSE [num |-> Cardinality(candidate_tokens \cap source_tokens),
          den |-> Cardinality(candidate_tokens)]

\* lines 455-466: 0.0, or matching_tokens / total_candidate_tokens
subset_similarity(source_tokens, candidate_tokens, min_candidate_tokens) ==
    IF candidate_tokens = {} THEN [num |-> 0, den |-> 1]
    ELSE IF Cardinality(candidate_tokens) < min_candidate_tokens THEN [num |-> 0, den |-> 1]
    ELSE [num |-> Cardinality(candidate_tokens \cap source_tokens),
          den |-> Cardinality(candidate_tokens)]

\* float comparisons of two quotients of small integers
SimLess(a, b) == a.num * b.den < b.num * a.den

SimEq(a, b) == a.num * b.den = b.num * a.den

\* similarity >= h/100
SimAtLeast(sim, h) == 100 * sim.num >= h * sim.den

\* ------------------------------------------------------------------ program constants

MinCandidateTokens == 2

ExactThresholdTrackMatch == 40

ExactThresholdDefault == 75

AltThreshold == 50

ExactToleranceTrackMatch == 5000

ExactToleranceDefault == 1000

AltTolerance == 10000

MissingAlbumPenalty == 5

VersionPenalty == 10

version_words == { <<"l","i","v","e">>, <<"r","e","m","i","x">>, <<"c","o","v","e","r">>,
                   <<"a","c","o","u","s","t","i","c">>, <<"d","e","m","o">> }

\* ------------------------------------------------------------------ classifier (one loop iteration)

\* lines 505-507
TrackNumberMatch(source_track_number, track_number) ==
    IF TruthyInt(source_track_number) /\ TruthyInt(track_number)
    THEN source_track_number = track_number
    ELSE FALSE

\* line 513: the duration check runs only when both values are truthy
DurationChecked(source_duration_ms, track_duration) ==
    TruthyInt(source_duration_ms) /\ TruthyInt(track_duration)

\* line 517
ExactDurationTolerance(track_number_match) ==
    IF track_number_match THEN ExactToleranceTrackMatch ELSE ExactToleranceDefault

\* line 519
AltDurationOk(duration_diff) == duration_diff <= AltTolerance

\* line 530
ExactThreshold(track_number_match) ==
    IF track_number_match THEN ExactThresholdTrackMatch ELSE ExactThresholdDefault

\* line 540
AlbumMatch(track_album, source_album) ==
    IF TruthyStr(source_album) THEN Lower(track_album) = Lower(OrEmpty(source_album)) ELSE FALSE

\* lines 541 and 566: 0.05 if not track_album or track_album.strip() == ''
MissingDataPenalty(track_album) ==
    IF ~TruthyStr(track_album) \/ Strip(track_album) = <<>> THEN MissingAlbumPenalty ELSE 0

\* lines 554-563
VersionPenaltyOf(track_title, title) ==
    LET candidate_has_version == \E w \in version_words : Contains(Lower(track_title), w)
        source_has_version == \E w \in version_words : Contains(Lower(title), w)
    IN  IF candidate_has_version /\ ~source_has_version THEN VersionPenalty ELSE 0

\* lines 490-519 and 530: everything one iteration computes before it classifies
Measure(src, src_exact_tokens, src_alt_tokens, track) ==
    LET exact_similarity ==
            subset_similarity(src_exact_tokens,
                create_token_set(track.title, track.artist, track.album), MinCandidateTokens)
        alt_similarity ==
            subset_similarity(src_alt_tokens,
                create_token_set(track.title, track.artist, <<>>), MinCandidateTokens)
        track_number_match == TrackNumberMatch(src.source_track_number, track.track_number)
        checked == DurationChecked(src.source_duration_ms, track.duration_ms)
        duration_diff == IF checked THEN Abs(src.source_duration_ms - track.duration_ms) ELSE 0
    IN  [exact_similarity |-> exact_similarity,
         alt_similarity |-> alt_similarity,
         track_number_match |-> track_number_match,
         checked |-> checked,
         duration_diff |-> duration_diff,
         exact_duration_ok |->
            IF checked THEN duration_diff <= ExactDurationTolerance(track_number_match) ELSE TRUE,
         alt_duration_ok |-> IF checked THEN AltDurationOk(duration_diff) ELSE TRUE,
         exact_threshold |-> ExactThreshold(track_number_match)]

\* line 534
IsExact(m) == SimAtLeast(m.exact_similarity, m.exact_threshold) /\ m.exact_duration_ok

\* line 547
IsAlternative(m) == SimAtLeast(m.alt_similarity, AltThreshold) /\ m.alt_duration_ok

\* lines 536-543
ExactCandidate(src, track, m) ==
    [track |-> track,
     similarity |-> m.exact_similarity,
     duration_diff |-> m.duration_diff,
     album_match |-> AlbumMatch(track.album, src.source_album),
     missing_data_penalty |-> MissingDataPenalty(track.album),
     track_number_match |-> m.track_number_match]

\* lines 550-579
AltCandidate(src, track, m, service_name) ==
    LET version_penalty == VersionPenaltyOf(track.title, src.title)
        missing_data_penalty == MissingDataPenalty(track.album)
    IN  [track |-> track,
         similarity |-> m.alt_similarity,
         duration_diff |-> m.duration_diff,
         version_penalty |-> version_penalty,
         missing_data_penalty |-> missing_data_penalty,
         total_penalty |-> version_penalty + missing_data_penalty,
         service |-> service_name]

\* ------------------------------------------------------------------ ranker

\* the key of line 591 without its album_match component
ExactKeyLess_NoAlbumMatch(a, b) ==
    \/ SimLess(a.similarity, b.similarity)
    \/ /\ SimEq(a.similarity, b.similarity)
       /\ \/ (~a.track_number_match /\ b.track_number_match)
          \/ /\ a.track_number_match = b.track_number_match
             /\ \/ a.missing_data_penalty > b.missing_data_penalty
                \/ /\ a.missing_data_penalty = b.missing_data_penalty
                   /\ a.duration_diff > b.duration_diff

\* lines 591-597: tuple comparison of the keys of two exact candidates, key(a) < key(b)
ExactKeyLess(a, b) ==
    \/ SimLess(a.similarity, b.similarity)
    \/ /\ SimEq(a.similarity, b.similarity)
       /\ \/ (~a.album_match /\ b.album_match)
          \/ /\ a.album_match = b.album_match
             /\ \/ (~a.track_number_match /\ b.track_number_match)
                \/ /\ a.track_number_match = b.track_number_match
                   /\ \/ a.missing_data_penalty > b.missing_data_penalty
                      \/ /\ a.missing_data_penalty = b.missing_data_penalty
                         /\ a.duration_diff > b.duration_diff

\* max(exact_candidates, key=...): the first candidate no later one beats
RECURSIVE MaxFrom(_, _)
MaxFrom(best, rest) ==
    IF rest = <<>> THEN best
    ELSE MaxFrom(IF ExactKeyLess(best, Head(rest)) THEN Head(rest) ELSE best, Tail(rest))

BestExact(exact_candidates) == MaxFrom(Head(exact_candidates), Tail(exact_candidates))

\* the key of line 604 with similarity not negated: similarity ascending
AltKeyLess_SimilarityAscending(a, b) ==
    \/ SimLess(a.similarity, b.similarity)
    \/ /\ SimEq(a.similarity, b.similarity)
       /\ \/ a.total_penalty < b.total_penalty
          \/ /\ a.total_penalty = b.total_penalty
             /\ a.duration_diff < b.duration_diff

\* lines 604-608: key(a) < key(b) for (-similarity, total_penalty, duration_diff)
AltKeyLess(a, b) ==
    \/ SimLess(b.similarity, a.similarity)
    \/ /\ SimEq(a.similarity, b.similarity)
       /\ \/ a.total_penalty < b.total_penalty
          \/ /\ a.total_penalty = b.total_penalty
             /\ a.duration_diff < b.duration_diff

\* list.sort is stable: an element goes after every element whose key is not greater
RECURSIVE InsertSorted(_, _)
InsertSorted(sorted, x) ==
    IF sorted = <<>> THEN <<x>>
    ELSE IF AltKeyLess(x, Head(sorted)) THEN <<x>> \o sorted
    ELSE <<Head(sorted)>> \o InsertSorted(Tail(sorted), x)

RECURSIVE SortAlternatives(_)
SortAlternatives(alt_candidates) ==
    IF alt_candidates = <<>> THEN <<>>
    ELSE InsertSorted(SortAlternatives(SubSeq(alt_candidates, 1, Len(alt_candidates) - 1)),
                      alt_candidates[Len(alt_candidates)])

\* lines 612-621
AltItem(candidate, service_name) ==
    [title |-> candidate.track.title,
     artist |-> candidate.track.artist,
     album |-> candidate.track.album,
     url |-> candidate.track.url,
     durationMs |-> candidate.track.duration_ms,
     service |-> service_name]

\* ------------------------------------------------------------------ inputs

\* the results all three searches of one call return together
MaxResults == 2

S_aa == <<"a","a">>

S_aa_live == <<"A","a"," ","(","L","i","v","e",")">>

S_dd_ee == <<"d","d"," ","e","e">>

S_bb == <<"b","b">>

S_cc == <<"c","c">>

S_Cc == <<"C","c">>

S_Bb == <<"B","b">>

S_dd == <<"d","d">>

S_ee == <<"e","e">>

S_dd_live == <<"D","d"," ","(","L","i","v","e",")">>

Providers == <<"spotify", "apple", "youtube">>

\* the source track: album "cc" with every duration and track number, and one
\* track without an album
SourceMain ==
    [title |-> S_aa, artist |-> S_bb, source_album |-> S_cc,
     source_duration_ms |-> 20000, source_track_number |-> 1]

SourceDurations == {NoneInt, 4000, 20000}

SourceTrackNumbers == {NoneInt, 1, 2}

Sources ==
    {[SourceMain EXCEPT !.source_duration_ms = d, !.source_track_number = n] :
        d \in SourceDurations, n \in SourceTrackNumbers}
    \cup {[SourceMain EXCEPT !.source_album = NoneStr]}

\* one search result, its url apart: a reference result, and the results that differ
\* from it in the text (title, artist, album), in the duration or in the track number
PlainTrack ==
    [title |-> S_aa, artist |-> S_bb, album |-> S_Cc,
     duration_ms |-> 19000, track_number |-> 1]

Texts ==
    {[title |-> S_aa, artist |-> S_bb, album |-> <<>>],
     [title |-> S_aa, artist |-> S_bb, album |-> S_Bb],
     [title |-> S_aa_live, artist |-> S_bb, album |-> S_Cc],
     [title |-> S_aa_live, artist |-> S_bb, album |-> S_dd_ee],
     [title |-> S_aa_live, artist |-> S_bb, album |-> <<>>],
     [title |-> S_dd_ee, artist |-> S_bb, album |-> <<>>]}

CandDurations == {NoneInt, 0, 15000, 10000, 9999}

CandTrackNumbers == {NoneInt}

\* what the Spotify and iTunes searches can return as one result
CatalogResults ==
    {PlainTrack}
    \cup {[PlainTrack EXCEPT !.title = x.title, !.artist = x.artist, !.album = x.album] :
            x \in Texts}
    \cup {[PlainTrack EXCEPT !.duration_ms = d] : d \in CandDurations}
    \cup {[PlainTrack EXCEPT !.track_number = n] : n \in CandTrackNumbers}

\* lines 284-288: a YouTube result has a title, an artist and a url only, so
\* process_results reads album '' and duration_ms, track_number None
YouTubeResults ==
    {[title |-> t, artist |-> S_bb, album |-> <<>>,
      duration_ms |-> NoneInt, track_number |-> NoneInt] : t \in {S_aa, S_aa_live}}

\* a second source track, "dd" by "ee", with and without a duration and a track
\* number, and the same track with its title or its artist missing (None) or empty
EdgeMain ==
    [title |-> S_dd, artist |-> S_ee, source_album |-> S_cc,
     source_duration_ms |-> 20000, source_track_number |-> 1]

MalformedTexts ==
    {[title |-> NoneStr, artist |-> S_ee], [title |-> <<>>, artist |-> S_ee],
     [title |-> S_dd, artist |-> NoneStr], [title |-> S_dd, artist |-> <<>>]}

EdgeSources ==
    {[EdgeMain EXCEPT !.source_duration_ms = d, !.source_track_number = n] :
        d \in {NoneInt, 20000}, n \in {NoneInt, 1}}
    \cup {[EdgeMain EXCEPT !.title = x.title, !.artist = x.artist, !.source_track_number = n] :
            x \in MalformedTexts, n \in {NoneInt, 1}}

\* what the Spotify and iTunes searches can return as one result for that second
\* track: the track itself, a live version, two results without an artist (one with
\* the album, one without), and the track without a duration
SparseResults ==
    {[title |-> S_dd, artist |-> S_ee, album |-> S_Cc, duration_ms |-> 19500, track_number |-> 1],
     [title |-> S_dd_live, artist |-> S_ee, album |-> <<>>,
      duration_ms |-> 15000, track_number |-> NoneInt],
     [title |-> S_dd, artist |-> <<>>, album |-> S_cc, duration_ms |-> 19500, track_number |-> 1],
     [title |-> S_dd, artist |-> <<>>, album |-> <<>>, duration_ms |-> 19500, track_number |-> 1],
     [title |-> S_dd, artist |-> S_ee, album |-> S_Cc,
      duration_ms |-> NoneInt, track_number |-> 1]}

\* what search_track(title, artist) of a provider can return as one result
SearchResults(service_name, title, artist) ==
    IF service_name = "youtube" THEN YouTubeResults
    ELSE IF title = S_aa /\ artist = S_bb THEN CatalogResults
    ELSE SparseResults

\* the url of the i-th result of a provider: every result has a url of its own
UrlOf(service_name, i) == <<service_name, i>>

WithUrl(t, service_name, i) ==
    [title |-> t.title, artist |-> t.artist, album |-> t.album,
     duration_ms |-> t.duration_ms, track_number |-> t.track_number,
     url |-> UrlOf(service_name, i)]

\* ------------------------------------------------------------------ state

VARIABLES
    source,                  \* title, artist, source_album, source_duration_ms, source_track_number
    source_exact_tokens,     \* line 476
    source_alt_tokens,       \* line 477
    links,                   \* line 482: service name -> url
    alternatives,            \* line 483: service name -> list of items
    results,                 \* spotify_results, apple_results, yt_results, once assigned
    cur,                     \* the provider being worked on, 0 before the first
    pc,                      \* "start", "loop", "ranked", "done" (returned), "raised"
    idx,                     \* tracks of results[cur] the loop has taken
    exact_candidates,        \* line 486
    alt_candidates,          \* line 487
    exact_duration_tolerance \* the local of line 517, Unbound until assigned

\* one call of subset_similarity on its own
VARIABLES
    sim_source_tokens,       \* the argument source_tokens
    sim_candidate_tokens,    \* the argument candidate_tokens
    sim_min,                 \* the argument min_candidate_tokens
    sim_result               \* the value returned, NoResult before the call

\* one call of create_token_set(s, "", "") on its own
VARIABLES
    tok_s,                   \* the argument title
    tok_result               \* the set returned, NoTokens before the call

\* one call of a provider's search_track
VARIABLES
    api,                     \* the provider whose search_track is called
    api_title,               \* the argument title
    api_artist,              \* the argument artist
    api_credentials,         \* client_id and client_secret (Spotify) or api_key (YouTube) are set
    api_token,               \* SpotifyAPI._token
    api_requests,            \* the requests sent so far, each with what it was answered
    api_pc,                  \* "idle", "call", "strict", "loose", "title_only", "returned", "raised"
    api_out                  \* the list returned

\* one request to redirect_handler
VARIABLES
    url,                     \* the parameter url
    pref,                    \* the parameter pref
    cookie,                  \* the cookie music_pref
    user_pref,               \* line 708
    platform,                \* line 716
    target_url,              \* lines 762 and 774
    h_links,                 \* the handler's links (lines 731-732, 770)
    h_alternatives,          \* the handler's alternatives (line 773), UnboundDict until assigned
    response,                \* what the request is answered with
    hpc                      \* "idle", "received", "parsed", "resolved", "lookup", "answer", "responded"

corevars == <<source, source_exact_tokens, source_alt_tokens, links, alternatives, results,
              cur, pc, idx, exact_candidates, alt_candidates, exact_duration_tolerance>>

simvars == <<sim_source_tokens, sim_candidate_tokens, sim_min, sim_result>>

tokvars == <<tok_s, tok_result>>

apivars == <<api, api_title, api_artist, api_credentials, api_token, api_requests, api_pc,
             api_out>>

handlervars == <<url, pref, cookie, user_pref, platform, target_url, h_links, h_alternatives,
                 response, hpc>>

\* everything find_equivalent_links does not touch
noncorevars == <<simvars, tokvars, apivars, handlervars>>

vars == <<corevars, simvars, tokvars, apivars, handlervars>>

NoResult == [num |-> 0, den |-> 0]

\* a local variable no assignment has reached yet
Unbound == NoneInt

Service == Providers[cur]

Used == IF DOMAIN results = {} THEN 0
        ELSE LET n(p) == IF p \in DOMAIN results THEN Len(results[p]) ELSE 0
             IN  n("spotify") + n("apple") + n("youtube")

\* no call of subset_similarity on its own is under way
SimIdle ==
    /\ sim_source_tokens = {}
    /\ sim_candidate_tokens = {}
    /\ sim_min = MinCandidateTokens
    /\ sim_result = NoResult

\* tok_result before create_token_set has returned: no token is the empty word
NoTokens == {<<>>}

\* no call of create_token_set on its own is under way
TokIdle ==
    /\ tok_s = <<>>
    /\ tok_result = NoTokens

\* None where a platform, a preference or a token is a str
NoneName == "None"

\* no call of search_track on its own is under way
ApiIdle ==
    /\ api = NoneName
    /\ api_title = <<>>
    /\ api_artist = <<>>
    /\ api_credentials = FALSE
    /\ api_token = NoneName
    /\ api_requests = <<>>
    /\ api_pc = "idle"
    /\ api_out = <<>>

\* a url is <<netloc, track id>>; None and '' are the empty tuple
NoUrl == <<>>

\* a dict-valued local no assignment has reached yet
UnboundDict == [unbound |-> TRUE]

\* no response yet
NoResponse ==
    [kind |-> "none", status_code |-> 0, url |-> NoUrl, set_cookie |-> NoneName,
     links |-> UnboundDict, alternatives |-> UnboundDict]

\* no request to redirect_handler is under way
HandlerIdle ==
    /\ url = NoUrl
    /\ pref = NoneName
    /\ cookie = NoneName
    /\ user_pref = NoneName
    /\ platform = NoneName
    /\ target_url = NoUrl
    /\ h_links = <<>>
    /\ h_alternatives = UnboundDict
    /\ response = NoResponse
    /\ hpc = "idle"

\* lines 474-483, for a source track of the set
CoreInitFrom(source_tracks) ==
    /\ source \in source_tracks
    /\ source_exact_tokens = create_token_set(source.title, source.artist, source.source_album)
    /\ source_alt_tokens = create_token_set(source.title, source.artist, <<>>)
    /\ links = <<>>
    /\ alternatives = <<>>
    /\ results = <<>>
    /\ cur = 0
    /\ pc = "start"
    /\ idx = 0
    /\ exact_candidates = <<>>
    /\ alt_candidates = <<>>
    /\ exact_duration_tolerance = Unbound

CoreInit == CoreInitFrom(Sources)

Init == CoreInit /\ SimIdle /\ TokIdle /\ ApiIdle /\ HandlerIdle

\* what the provider's search for the source's title and artist can return as one result
ResultsOf(service_name) == SearchResults(service_name, source.title, source.artist)

\* the lists of at most n results a search of the provider can return
ResultLists(service_name, n) ==
    {[i \in DOMAIN f |-> WithUrl(f[i], service_name, i)] :
        f \in UNION {[1..k -> ResultsOf(service_name)] : k \in 0..n}}

\* a search returns, and process_results is entered with its result (lines 486-487)
Search(i) ==
    /\ \/ (pc = "start" /\ i = 1)
       \/ (pc = "ranked" /\ i = cur + 1)
    /\ \E found \in ResultLists(Providers[i], MaxResults - Used) :
            results' = (Providers[i] :> found) @@ results
    /\ cur' = i
    /\ pc' = "loop"
    /\ idx' = 0
    /\ exact_candidates' = <<>>
    /\ alt_candidates' = <<>>
    /\ exact_duration_tolerance' = Unbound
    /\ UNCHANGED <<source, source_exact_tokens, source_alt_tokens, links, alternatives>>
    /\ UNCHANGED noncorevars

\* lines 626-628
SearchSpotify == Search(1)

\* lines 631-633
SearchApple == Search(2)

\* lines 636-638
SearchYouTube == Search(3)

\* the iteration without the `continue` of line 544
Pools_NoContinue(m) == [exact |-> IsExact(m), alt |-> IsAlternative(m)]

\* lines 534-547: the pools one iteration appends the track to; `continue` after the
\* exact append keeps an exact match out of the alternatives
Pools(m) == [exact |-> IsExact(m), alt |-> ~IsExact(m) /\ IsAlternative(m)]

\* line 556: title.lower() raises AttributeError when title is None; the line is
\* reached by a result that passes the test of an alternative
TitleLowerRaises(title, to) == to.alt /\ title = NoneStr

\* lines 489-586: one iteration of the loop. The debug line 525 reads
\* exact_duration_tolerance, which only line 517 assigns: it raises UnboundLocalError
\* when no iteration of this call has run the duration check yet.
ProcessTrack ==
    /\ pc = "loop"
    /\ idx < Len(results[Service])
    /\ LET track == results[Service][idx + 1]
           m == Measure(source, source_exact_tokens, source_alt_tokens, track)
           tolerance == IF m.checked THEN ExactDurationTolerance(m.track_number_match)
                        ELSE exact_duration_tolerance
           to == Pools(m)
       IN  /\ idx' = idx + 1
           /\ exact_duration_tolerance' = tolerance
           /\ IF tolerance = Unbound \/ TitleLowerRaises(source.title, to)
              THEN /\ pc' = "raised"
                   /\ UNCHANGED <<exact_candidates, alt_candidates>>
              ELSE /\ pc' = "loop"
                   /\ exact_candidates' =
                        IF to.exact THEN Append(exact_candidates, ExactCandidate(source, track, m))
                        ELSE exact_candidates
                   /\ alt_candidates' =
                        IF to.alt
                        THEN Append(alt_candidates, AltCandidate(source, track, m, Service))
                        ELSE alt_candidates
    /\ UNCHANGED <<source, source_exact_tokens, source_alt_tokens, links, alternatives,
                   results, cur>>
    /\ UNCHANGED noncorevars

\* lines 588-623
RankAndStore ==
    /\ pc = "loop"
    /\ idx = Len(results[Service])
    /\ links' = IF exact_candidates # <<>>
                THEN (Service :> BestExact(exact_candidates).track.url) @@ links
                ELSE links
    /\ alt_candidates' = SortAlternatives(alt_candidates)
    /\ alternatives' =
            IF alt_candidates # <<>>
            THEN (Service :> [i \in 1..Len(alt_candidates) |->
                                AltItem(SortAlternatives(alt_candidates)[i], Service)])
                 @@ alternatives
            ELSE alternatives
    /\ pc' = "ranked"
    /\ UNCHANGED <<source, source_exact_tokens, source_alt_tokens, results, cur, idx,
                   exact_candidates, exact_duration_tolerance>>
    /\ UNCHANGED noncorevars

\* line 640
Return ==
    /\ pc = "ranked"
    /\ cur = Len(Providers)
    /\ pc' = "done"
    /\ UNCHANGED <<source, source_exact_tokens, source_alt_tokens, links, alternatives,
                   results, cur, idx, exact_candidates, alt_candidates,
                   exact_duration_tolerance>>
    /\ UNCHANGED noncorevars

Next ==
    \/ SearchSpotify
    \/ SearchApple
    \/ SearchYouTube
    \/ ProcessTrack
    \/ RankAndStore
    \/ Return

Spec == Init /\ [][Next]_vars

\* the same call for the second source track and its malformed variants
EdgeInit == CoreInitFrom(EdgeSources) /\ SimIdle /\ TokIdle /\ ApiIdle /\ HandlerIdle

EdgeSpec == EdgeInit /\ [][Next]_vars

\* ------------------------------------------------------------------ subset_similarity on its own

\* the tokens a call draws its two sets from
MaxTokens == 3

\* the largest min_candidate_tokens a call is given
MaxMin == 3

SimTokens == 1..MaxTokens

SimInit ==
    /\ sim_source_tokens \in SUBSET SimTokens
    /\ sim_candidate_tokens \in SUBSET SimTokens
    /\ sim_min \in 0..MaxMin
    /\ sim_result = NoResult
    /\ source = SourceMain
    /\ source_exact_tokens = {}
    /\ source_alt_tokens = {}
    /\ links = <<>>
    /\ alternatives = <<>>
    /\ results = <<>>
    /\ cur = 0
    /\ pc = "sim"
    /\ idx = 0
    /\ exact_candidates = <<>>
    /\ alt_candidates = <<>>
    /\ exact_duration_tolerance = Unbound
    /\ TokIdle
    /\ ApiIdle
    /\ HandlerIdle

\* lines 441-466
SimCall ==
    /\ pc = "sim"
    /\ sim_result = NoResult
    /\ sim_result' = subset_similarity(sim_source_tokens, sim_candidate_tokens, sim_min)
    /\ UNCHANGED <<sim_source_tokens, sim_candidate_tokens, sim_min>>
    /\ UNCHANGED <<corevars, tokvars, apivars, handlervars>>

SimNext == SimCall

SimSpec == SimInit /\ [][SimNext]_vars

\* ------------------------------------------------------------------ search_track of a provider

\* the items one response carries at most
MaxItems == 2

\* how a request that does not deliver a usable body ends: requests raises (network
\* error, timeout), the status is not a success, the body is not JSON, or the JSON
\* has not the shape the code reads (the reading raises AttributeError, KeyError or
\* TypeError)
FailureKinds == {"network_error", "http_error", "not_json", "wrong_shape"}

\* the items of a body: the first `skip` of them carry no videoId
ItemLists ==
    {[i \in 1..k |-> [n |-> i, videoId |-> i > skip]] : k \in 1..MaxItems, skip \in 0..1}

\* what a search request can be answered with
SearchAnswers ==
    {[kind |-> k, items |-> <<>>] : k \in FailureKinds}
    \cup {[kind |-> "ok", items |-> l] : l \in {<<>>} \cup ItemLists}

\* what the token request can be answered with: a failure, a JSON object without
\* access_token, or a token
TokenAnswers == FailureKinds \cup {"no_token", "token"}

\* a call that returned a value, and a call that raised
Returned(value) == [raised |-> FALSE, value |-> value]

Raised == [raised |-> TRUE, value |-> <<>>]

\* lines 155-165 and 227-237: one result per item
ResultsFrom(items) == [i \in DOMAIN items |-> [item |-> items[i].n]]

\* lines 108-125, from the request on: every failure is caught and gives None
get_access_token(answer) ==
    IF answer \in FailureKinds THEN Returned(NoneName)
    ELSE IF answer = "no_token" THEN Returned(NoneName)
    ELSE Returned("token")

\* do_search whose failures are not caught
do_search_NoExcept(answer) ==
    IF answer.kind \in FailureKinds THEN Raised
    ELSE Returned(ResultsFrom(answer.items))

\* lines 145-167: `except Exception: return []` around the request, raise_for_status,
\* resp.json() and the reading of the body
do_search(answer) ==
    IF answer.kind \in FailureKinds THEN Returned(<<>>)
    ELSE Returned(ResultsFrom(answer.items))

\* lines 218-239: a status other than 200 returns [], every exception is caught
itunes_search(answer) ==
    IF answer.kind = "http_error" THEN Returned(<<>>)
    ELSE IF answer.kind \in FailureKinds THEN Returned(<<>>)
    ELSE Returned(ResultsFrom(answer.items))

\* lines 275-291: every exception is caught; an item without videoId is left out
youtube_search(answer) ==
    IF answer.kind \in FailureKinds THEN Returned(<<>>)
    ELSE Returned(ResultsFrom(SelectSeq(answer.items, LAMBDA item : item.videoId)))

\* a query is the list of its terms, each <<field, text>>, the field "" when the term
\* is not fielded
Term(field, text) == <<field, text>>

\* lines 170-175: track:"title" artist:"artist", each only when truthy
StrictQuery(title, artist) ==
    (IF TruthyStr(title) THEN <<Term("track", title)>> ELSE <<>>)
    \o (IF TruthyStr(artist) THEN <<Term("artist", artist)>> ELSE <<>>)

\* line 185: " ".join([p for p in [title, artist] if p])
LooseQuery(title, artist) ==
    (IF TruthyStr(title) THEN <<Term("", title)>> ELSE <<>>)
    \o (IF TruthyStr(artist) THEN <<Term("", artist)>> ELSE <<>>)

\* line 197
TitleQuery(title) == <<Term("", title)>>

\* `if results: return results` never taken
ReturnsResults_Never(found) == FALSE

\* lines 181, 192, 202: `if results: return results`
ReturnsResults(found) == found # <<>>

\* the record of one request: to "token" or "search", the query (its name in the
\* code's log, its terms), the answer and what the code made of it
Request(to, query, q, answer, found) ==
    [to |-> to, query |-> query, q |-> q, answer |-> answer, found |-> found]

ApiTitles == {<<>>, S_aa}

ApiArtists == {<<>>, S_bb}

\* a call of search_track about to start; a cached token needs credentials (line 122
\* is only reached with them)
ApiInit ==
    /\ api \in RangeOf(Providers)
    /\ api_title \in ApiTitles
    /\ api_artist \in ApiArtists
    /\ api_credentials \in BOOLEAN
    /\ api_token \in {NoneName, "token"}
    /\ (api_token = "token") => (api = "spotify" /\ api_credentials)
    /\ (api = "apple") => ~api_credentials
    /\ api_requests = <<>>
    /\ api_pc = "call"
    /\ api_out = <<>>

\* the call ends: with a list, or with the exception of a call that raised
ApiEnd(outcome) ==
    /\ api_pc' = IF outcome.raised THEN "raised" ELSE "returned"
    /\ api_out' = outcome.value

\* one of the three queries of SpotifyAPI.search_track: the request, and the return
\* when it found something; otherwise on to `next`, or `return []` after the last
SpotifyQuery(query, q, next) ==
    \E answer \in SearchAnswers :
        LET outcome == do_search(answer)
        IN  /\ api_requests' =
                    Append(api_requests, Request("search", query, q, answer.kind, outcome.value))
            /\ IF outcome.raised \/ ReturnsResults(outcome.value) \/ next = "returned"
               THEN ApiEnd(outcome)
               ELSE api_pc' = next /\ api_out' = api_out

\* lines 140-143 with _get_access_token (108-125)
SpotifyToken ==
    /\ api = "spotify"
    /\ api_pc = "call"
    /\ IF api_token # NoneName
       THEN /\ api_pc' = "strict"
            /\ UNCHANGED <<api_token, api_requests, api_out>>
       ELSE IF ~api_credentials
       THEN /\ ApiEnd(Returned(<<>>))
            /\ UNCHANGED <<api_token, api_requests>>
       ELSE \E answer \in TokenAnswers :
                LET token == get_access_token(answer)
                IN  /\ api_requests' =
                            Append(api_requests, Request("token", "token", <<>>, answer, <<>>))
                    /\ api_token' = IF token.raised THEN api_token ELSE token.value
                    /\ IF token.raised THEN ApiEnd(Raised)
                       ELSE IF token.value = NoneName THEN ApiEnd(Returned(<<>>))
                       ELSE api_pc' = "strict" /\ api_out' = api_out
    /\ UNCHANGED <<api, api_title, api_artist, api_credentials>>
    /\ UNCHANGED <<corevars, simvars, tokvars, handlervars>>

\* lines 169-182
SpotifyStrict ==
    /\ api = "spotify"
    /\ api_pc = "strict"
    /\ SpotifyQuery("strict", StrictQuery(api_title, api_artist), "loose")
    /\ UNCHANGED <<api, api_title, api_artist, api_credentials, api_token>>
    /\ UNCHANGED <<corevars, simvars, tokvars, handlervars>>

\* lines 184-193: no request when title and artist are both empty
SpotifyLoose ==
    /\ api = "spotify"
    /\ api_pc = "loose"
    /\ IF LooseQuery(api_title, api_artist) # <<>>
       THEN SpotifyQuery("loose", LooseQuery(api_title, api_artist), "title_only")
       ELSE api_pc' = "title_only" /\ UNCHANGED <<api_requests, api_out>>
    /\ UNCHANGED <<api, api_title, api_artist, api_credentials, api_token>>
    /\ UNCHANGED <<corevars, simvars, tokvars, handlervars>>

\* lines 195-205: no request without a title
SpotifyTitleOnly ==
    /\ api = "spotify"
    /\ api_pc = "title_only"
    /\ IF TruthyStr(api_title)
       THEN SpotifyQuery("title_only", TitleQuery(api_title), "returned")
       ELSE ApiEnd(Returned(<<>>)) /\ UNCHANGED api_requests
    /\ UNCHANGED <<api, api_title, api_artist, api_credentials, api_token>>
    /\ UNCHANGED <<corevars, simvars, tokvars, handlervars>>

\* lines 214-239
ITunesSearch ==
    /\ api = "apple"
    /\ api_pc = "call"
    /\ \E answer \in SearchAnswers :
            LET outcome == itunes_search(answer)
            IN  /\ api_requests' =
                        Append(api_requests,
                               Request("search", "itunes", LooseQuery(api_title, api_artist),
                                       answer.kind, outcome.value))
                /\ ApiEnd(outcome)
    /\ UNCHANGED <<api, api_title, api_artist, api_credentials, api_token>>
    /\ UNCHANGED <<corevars, simvars, tokvars, handlervars>>

\* lines 263-291: without an api_key no request is made
YouTubeSearch ==
    /\ api = "youtube"
    /\ api_pc = "call"
    /\ IF ~api_credentials
       THEN ApiEnd(Returned(<<>>)) /\ UNCHANGED api_requests
       ELSE \E answer \in SearchAnswers :
                LET outcome == youtube_search(answer)
                IN  /\ api_requests' =
                            Append(api_requests,
                                   Request("search", "youtube",
                                           LooseQuery(api_title, api_artist),
                                           answer.kind, outcome.value))
                    /\ ApiEnd(outcome)
    /\ UNCHANGED <<api, api_title, api_artist, api_credentials, api_token>>
    /\ UNCHANGED <<corevars, simvars, tokvars, handlervars>>

\* find_equivalent_links is not running
CoreIdle ==
    /\ source = SourceMain
    /\ source_exact_tokens = {}
    /\ source_alt_tokens = {}
    /\ links = <<>>
    /\ alternatives = <<>>
    /\ results = <<>>
    /\ cur = 0
    /\ pc = "idle"
    /\ idx = 0
    /\ exact_candidates = <<>>
    /\ alt_candidates = <<>>
    /\ exact_duration_tolerance = Unbound

SearchInit == ApiInit /\ CoreIdle /\ SimIdle /\ TokIdle /\ HandlerIdle

SearchNext ==
    \/ SpotifyToken
    \/ SpotifyStrict
    \/ SpotifyLoose
    \/ SpotifyTitleOnly
    \/ ITunesSearch
    \/ YouTubeSearch

SearchSpec == SearchInit /\ [][SearchNext]_vars

\* ------------------------------------------------------------------ redirect_handler

\* the urls of a request: none (''), one urlparse rejects (an unbalanced "[" in the
\* netloc raises ValueError), one of no known platform, and a track of each platform
Urls ==
    {NoUrl, <<"[", 0>>, <<"example.com", 0>>, <<"open.spotify.com", 0>>,
     <<"music.apple.com", 0>>, <<"youtu.be", 0>>}

Netloc(u) == u[1]

\* urlparse(url) raises ValueError
UrlParseRaises(u) == Netloc(u) = "["

\* lines 301-306: the substrings detect_platform looks for that the netloc contains
NetlocParts ==
    [example_com |-> {}, open_spotify_com |-> {"spotify"},
     music_apple_com |-> {"music.apple.com"}, youtu_be |-> {"youtu.be"}]

PartsOf(netloc) ==
    CASE netloc = "open.spotify.com" -> NetlocParts.open_spotify_com
      [] netloc = "music.apple.com" -> NetlocParts.music_apple_com
      [] netloc = "youtu.be" -> NetlocParts.youtu_be
      [] OTHER -> NetlocParts.example_com

\* lines 294-307
detect_platform(u) ==
    IF UrlParseRaises(u) THEN NoneName
    ELSE LET host == PartsOf(Netloc(u))
         IN  IF "spotify" \in host THEN "spotify"
             ELSE IF "music.apple.com" \in host \/ "itunes.apple.com" \in host THEN "apple"
             ELSE IF "youtube.com" \in host \/ "youtu.be" \in host THEN "youtube"
             ELSE NoneName

\* the values of the parameter pref and of the cookie music_pref
Prefs == {NoneName, "", "spotify", "Apple", "youtube"}

Cookies == {NoneName, "apple"}

\* truthiness of an Optional[str] held as a name
TruthyName(name) == name # NoneName /\ name # ""

\* str.lower() of a preference
LowerName(name) == IF name = "Apple" THEN "apple" ELSE name

\* lines 643-656
get_preference(pref_param, music_pref) ==
    IF TruthyName(pref_param) THEN LowerName(pref_param)
    ELSE IF TruthyName(music_pref) THEN LowerName(music_pref)
    ELSE NoneName

\* no metadata could be resolved
Unresolved ==
    [title |-> NoneStr, artist |-> NoneStr, source_album |-> NoneStr,
     source_duration_ms |-> NoneInt, source_track_number |-> NoneInt]

\* lines 721-756: what the lookups of the source track can give: nothing, title and
\* artist with or without album, duration and track number, or a title without artist;
\* nothing at all for a YouTube url (lines 382-385)
MetadataFor(source_platform) ==
    IF source_platform = "youtube" THEN {Unresolved}
    ELSE {Unresolved,
          EdgeMain,
          [EdgeMain EXCEPT !.source_album = NoneStr, !.source_duration_ms = NoneInt,
                           !.source_track_number = NoneInt],
          [EdgeMain EXCEPT !.artist = NoneStr]}

\* dict.get(key) of a dict of urls
GetUrl(dict, key) == IF key \in DOMAIN dict THEN dict[key] ELSE NoUrl

\* line 770: links.update({k: v for k, v in equivalent_links.items() if k not in links})
UpdateLinks(known, equivalent_links) ==
    [k \in DOMAIN known \cup DOMAIN equivalent_links |->
        IF k \in DOMAIN known THEN known[k] ELSE equivalent_links[k]]

\* the link of the preferred platform, or else the url of its first alternative
PreferredLink_OrAlternative(all_links, preferred) ==
    IF preferred \in DOMAIN all_links THEN all_links[preferred]
    ELSE IF preferred \in DOMAIN alternatives THEN alternatives[preferred][1].url
    ELSE NoUrl

\* lines 762 and 774: target_url = links.get(user_pref)
PreferredLink(all_links, preferred) == GetUrl(all_links, preferred)

\* the responses
Redirect(location, music_pref) ==
    [kind |-> "redirect", status_code |-> 302, url |-> location, set_cookie |-> music_pref,
     links |-> UnboundDict, alternatives |-> UnboundDict]

FallbackPage(shown_links, shown_alternatives) ==
    [kind |-> "html", status_code |-> 200, url |-> NoUrl, set_cookie |-> NoneName,
     links |-> shown_links, alternatives |-> shown_alternatives]

\* raise HTTPException(status_code=400)
BadRequest ==
    [kind |-> "http_exception", status_code |-> 400, url |-> NoUrl, set_cookie |-> NoneName,
     links |-> UnboundDict, alternatives |-> UnboundDict]

\* an exception leaves the handler: the server answers 500
Failed ==
    [kind |-> "raised", status_code |-> 500, url |-> NoUrl, set_cookie |-> NoneName,
     links |-> UnboundDict, alternatives |-> UnboundDict]

HandlerInit ==
    /\ url \in Urls
    /\ pref \in Prefs
    /\ cookie \in Cookies
    /\ user_pref = NoneName
    /\ platform = NoneName
    /\ target_url = NoUrl
    /\ h_links = <<>>
    /\ h_alternatives = UnboundDict
    /\ response = NoResponse
    /\ hpc = "received"

\* lines 704-705
RejectMissingUrl ==
    /\ hpc = "received"
    /\ url = NoUrl
    /\ response' = BadRequest
    /\ hpc' = "responded"
    /\ UNCHANGED <<url, pref, cookie, user_pref, platform, target_url, h_links, h_alternatives>>
    /\ UNCHANGED <<corevars, simvars, tokvars, apivars>>

\* lines 707-719: line 715 calls urlparse outside any try
ParseUrl ==
    /\ hpc = "received"
    /\ url # NoUrl
    /\ user_pref' = get_preference(pref, cookie)
    /\ IF UrlParseRaises(url)
       THEN /\ response' = Failed
            /\ hpc' = "responded"
            /\ UNCHANGED platform
       ELSE /\ platform' = detect_platform(url)
            /\ IF detect_platform(url) = NoneName
               THEN response' = Redirect(url, NoneName) /\ hpc' = "responded"
               ELSE response' = response /\ hpc' = "parsed"
    /\ UNCHANGED <<url, pref, cookie, target_url, h_links, h_alternatives>>
    /\ UNCHANGED <<corevars, simvars, tokvars, apivars>>

\* lines 721-756
ResolveMetadata ==
    /\ hpc = "parsed"
    /\ source' \in MetadataFor(platform)
    /\ h_links' = (platform :> url)
    /\ hpc' = "resolved"
    /\ UNCHANGED <<url, pref, cookie, user_pref, platform, target_url, h_alternatives, response>>
    /\ UNCHANGED <<source_exact_tokens, source_alt_tokens, links, alternatives, results, cur,
                   pc, idx, exact_candidates, alt_candidates, exact_duration_tolerance>>
    /\ UNCHANGED <<simvars, tokvars, apivars>>

\* lines 759-766 up to the call of find_equivalent_links (lines 474-483), and lines
\* 787-791 when there is no preference or it is the source platform
Route ==
    /\ hpc = "resolved"
    /\ IF TruthyName(user_pref) /\ user_pref # platform
       THEN /\ target_url' = PreferredLink(h_links, user_pref)
            /\ response' = response
            /\ IF PreferredLink(h_links, user_pref) = NoUrl
                  /\ TruthyStr(source.title) /\ TruthyStr(source.artist)
               THEN /\ hpc' = "lookup"
                    /\ source_exact_tokens' =
                            create_token_set(source.title, source.artist, source.source_album)
                    /\ source_alt_tokens' = create_token_set(source.title, source.artist, <<>>)
                    /\ pc' = "start"
               ELSE /\ hpc' = "answer"
                    /\ UNCHANGED <<source_exact_tokens, source_alt_tokens, pc>>
       ELSE /\ response' = Redirect(url, user_pref)
            /\ hpc' = "responded"
            /\ UNCHANGED <<target_url, source_exact_tokens, source_alt_tokens, pc>>
    /\ UNCHANGED <<url, pref, cookie, user_pref, platform, h_links, h_alternatives>>
    /\ UNCHANGED <<source, links, alternatives, results, cur, idx, exact_candidates,
                   alt_candidates, exact_duration_tolerance>>
    /\ UNCHANGED <<simvars, tokvars, apivars>>

\* lines 766-775 once find_equivalent_links has returned; its exception leaves the
\* handler
AfterLookup ==
    /\ hpc = "lookup"
    /\ pc \in {"done", "raised"}
    /\ IF pc = "raised"
       THEN /\ response' = Failed
            /\ hpc' = "responded"
            /\ UNCHANGED <<h_links, h_alternatives, target_url>>
       ELSE /\ h_links' = UpdateLinks(h_links, links)
            /\ h_alternatives' =
                    (user_pref :> IF user_pref \in DOMAIN alternatives
                                  THEN alternatives[user_pref] ELSE <<>>)
            /\ target_url' = PreferredLink(UpdateLinks(h_links, links), user_pref)
            /\ response' = response
            /\ hpc' = "answer"
    /\ UNCHANGED <<url, pref, cookie, user_pref, platform>>
    /\ UNCHANGED <<corevars, simvars, tokvars, apivars>>

\* lines 777-785: line 784 reads alternatives, which only line 773 assigns
Answer ==
    /\ hpc = "answer"
    /\ response' =
            IF target_url # NoUrl THEN Redirect(target_url, user_pref)
            ELSE IF h_alternatives = UnboundDict THEN Failed
            ELSE FallbackPage(h_links, h_alternatives)
    /\ hpc' = "responded"
    /\ UNCHANGED <<url, pref, cookie, user_pref, platform, target_url, h_links, h_alternatives>>
    /\ UNCHANGED <<corevars, simvars, tokvars, apivars>>

HandlerSpecInit == HandlerInit /\ CoreIdle /\ SimIdle /\ TokIdle /\ ApiIdle

HandlerNext ==
    \/ RejectMissingUrl
    \/ ParseUrl
    \/ ResolveMetadata
    \/ Route
    \/ SearchSpotify
    \/ SearchApple
    \/ SearchYouTube
    \/ ProcessTrack
    \/ RankAndStore
    \/ Return
    \/ AfterLookup
    \/ Answer

HandlerSpec == HandlerSpecInit /\ [][HandlerNext]_vars

\* ------------------------------------------------------------------ create_token_set on its own

\* the longest title a call is given
MaxLen == 3

\* the characters of a title: letters of both cases (with "F" and "t" the stop words
\* "ft" and "ft." can be written, "x" is one), the sharp s, a space, punctuation and
\* parentheses
TokAlphabet == {"a", "F", "t", "x", SharpS, " ", ".", "&", "(", ")"}

TokStrings == UNION {[1..n -> TokAlphabet] : n \in 0..MaxLen}

TokInit ==
    /\ tok_s \in TokStrings
    /\ tok_result = NoTokens

\* lines 402-439, for create_token_set(s, "", "")
TokCall ==
    /\ tok_result = NoTokens
    /\ tok_result' = create_token_set(tok_s, <<>>, <<>>)
    /\ UNCHANGED tok_s
    /\ UNCHANGED <<corevars, simvars, apivars, handlervars>>

TokNext == TokCall

TokSpecInit == TokInit /\ CoreIdle /\ SimIdle /\ ApiIdle /\ HandlerIdle

TokSpec == TokSpecInit /\ [][TokNext]_vars

\* ------------------------------------------------------------------ process_results as a function

\* lines 485-623 for one provider on its own: whether the call raises, and the entries
\* it leaves in links_dict and alt_dict (none when it raises: nothing is returned)
RECURSIVE OwnFold(_, _, _, _, _)
OwnFold(rest, service_name, tolerance, exact, alt) ==
    IF rest = <<>>
    THEN [raised |-> FALSE,
          link |-> IF exact # <<>> THEN <<BestExact(exact).track.url>> ELSE <<>>,
          alts |-> [i \in 1..Len(alt) |-> AltItem(SortAlternatives(alt)[i], service_name)]]
    ELSE LET track == Head(rest)
             m == Measure(source, source_exact_tokens, source_alt_tokens, track)
             bound == IF m.checked THEN ExactDurationTolerance(m.track_number_match)
                      ELSE tolerance
             to == Pools(m)
         IN  IF bound = Unbound \/ TitleLowerRaises(source.title, to)
             THEN [raised |-> TRUE, link |-> <<>>, alts |-> <<>>]
             ELSE OwnFold(Tail(rest), service_name, bound,
                    IF to.exact THEN Append(exact, ExactCandidate(source, track, m)) ELSE exact,
                    IF to.alt THEN Append(alt, AltCandidate(source, track, m, service_name))
                    ELSE alt)

OwnEntry(service_name) == OwnFold(results[service_name], service_name, Unbound, <<>>, <<>>)

\* ------------------------------------------------------------------ reading a state

\* the call of find_equivalent_links has ended
Ended == pc \in {"done", "raised"}

\* what the caller gets for a provider: its link (a list of at most one url) and its
\* alternatives, nothing when the call raised
ReturnedEntry(service_name) ==
    IF pc = "done"
    THEN [link |-> IF service_name \in DOMAIN links THEN <<links[service_name]>> ELSE <<>>,
          alts |-> IF service_name \in DOMAIN alternatives THEN alternatives[service_name]
                   ELSE <<>>]
    ELSE [link |-> <<>>, alts |-> <<>>]

\* the tracks of the current provider the loop has taken, and those whose iteration
\* ran to its end
Taken == IF cur = 0 THEN {} ELSE 1..idx

Completed == IF pc = "raised" THEN Taken \ {idx} ELSE Taken

TrackAt(i) == results[Service][i]

MeasureAt(i) == Measure(source, source_exact_tokens, source_alt_tokens, TrackAt(i))

InExact(i) == \E k \in 1..Len(exact_candidates) : exact_candidates[k].track = TrackAt(i)

InAlt(i) == \E k \in 1..Len(alt_candidates) : alt_candidates[k].track = TrackAt(i)

\* |source duration - candidate duration| of two durations that are both given
DiffAt(i) == Abs(source.source_duration_ms - TrackAt(i).duration_ms)

BothDurationsGiven(i) ==
    source.source_duration_ms # NoneInt /\ TrackAt(i).duration_ms # NoneInt

\* both track numbers are set and equal
TrackNumbersMatchAt(i) ==
    /\ source.source_track_number # NoneInt
    /\ TrackAt(i).track_number # NoneInt
    /\ source.source_track_number = TrackAt(i).track_number

\* ------------------------------------------------------------------ claims

\* C1: whenever the source duration or the candidate duration is absent, the candidate
\* is classified by similarity alone: exact if its exact similarity reaches the exact
\* threshold, otherwise alternative if its alt similarity is >= 0.5. This holds for
\* every candidate the loop takes, the first of a provider included.
C1_AbsentDurationClassifiedBySimilarity ==
    \A i \in Taken :
        (source.source_duration_ms = NoneInt \/ TrackAt(i).duration_ms = NoneInt) =>
            LET m == MeasureAt(i)
                exact == SimAtLeast(m.exact_similarity, m.exact_threshold)
            IN  /\ exact => InExact(i)
                /\ (~exact /\ SimAtLeast(m.alt_similarity, AltThreshold)) => InAlt(i)

\* C2: once the call has ended, what the caller holds for a provider (its link and its
\* alternatives) is what the source and that provider's own result list determine,
\* whatever the other providers returned.
C2_EntriesFromOwnResultsOnly ==
    Ended =>
        \A p \in DOMAIN results :
            LET own == OwnEntry(p)
            IN  ~own.raised =>
                    /\ ReturnedEntry(p).link = own.link
                    /\ ReturnedEntry(p).alts = own.alts

\* C3: when a provider's search returned an empty list, the call still returns
\* normally, that provider is in neither links nor alternatives, and every other
\* provider has the entries its own results give.
C3_EmptyProviderIsHarmless ==
    (Ended /\ \E p \in DOMAIN results : results[p] = <<>>) =>
        /\ pc = "done"
        /\ \A p \in DOMAIN results :
                IF results[p] = <<>>
                THEN p \notin DOMAIN links /\ p \notin DOMAIN alternatives
                ELSE /\ ReturnedEntry(p).link = OwnEntry(p).link
                     /\ ReturnedEntry(p).alts = OwnEntry(p).alts

\* C4: every candidate the loop has processed is in at most one of the two pools, and
\* at most once; a candidate of the exact pool is not among the provider's alternatives.
C4_ExactXorAlternative ==
    cur >= 1 =>
        /\ \A i \in 1..Len(results[Service]) :
                /\ ~(InExact(i) /\ InAlt(i))
                /\ (i \notin Completed) => (~InExact(i) /\ ~InAlt(i))
                /\ Cardinality({k \in 1..Len(exact_candidates) :
                                    exact_candidates[k].track = TrackAt(i)}) <= 1
                /\ Cardinality({k \in 1..Len(alt_candidates) :
                                    alt_candidates[k].track = TrackAt(i)}) <= 1
        /\ (pc \in {"ranked", "done"} /\ Service \in DOMAIN alternatives) =>
                \A k \in 1..Len(exact_candidates) :
                    \A j \in 1..Len(alternatives[Service]) :
                        alternatives[Service][j].url # exact_candidates[k].track.url

\* C4's case: a provider whose results gave an exact match and an alternative, the
\* exact match one that also passes the test of an alternative
C4_Witness ==
    /\ pc = "ranked"
    /\ alt_candidates # <<>>
    /\ \E k \in 1..Len(exact_candidates) :
            IsAlternative(Measure(source, source_exact_tokens, source_alt_tokens,
                                  exact_candidates[k].track))

\* C5: the exact threshold is 0.4 exactly when both track numbers are set and equal and
\* 0.75 otherwise, and a candidate whose duration is acceptable (a duration is missing,
\* or the durations differ by no more than the exact tolerance) is classified exact
\* iff its exact similarity is >= that threshold.
C5_ExactIffSimilarityReachesThreshold ==
    \A i \in Taken :
        LET m == MeasureAt(i)
            threshold == IF TrackNumbersMatchAt(i) THEN 40 ELSE 75
            tolerance == IF TrackNumbersMatchAt(i) THEN 5000 ELSE 1000
            acceptable == BothDurationsGiven(i) => DiffAt(i) <= tolerance
        IN  /\ m.exact_threshold = threshold
            /\ acceptable => (InExact(i) <=> SimAtLeast(m.exact_similarity, threshold))

\* C6: when both durations are given, a candidate of sufficient similarity whose
\* duration differs from the source's by more than 1000 ms and at most 5000 ms is
\* classified exact with a track-number match and is not without one.
C6_ExactToleranceByTrackNumber ==
    \A i \in Completed :
        LET m == MeasureAt(i)
        IN  (/\ BothDurationsGiven(i)
             /\ SimAtLeast(m.exact_similarity, m.exact_threshold)
             /\ DiffAt(i) > 1000
             /\ DiffAt(i) <= 5000)
            => (InExact(i) <=> TrackNumbersMatchAt(i))

\* C7: whenever the source and the candidate both carry a duration (any integer >= 0),
\* a candidate whose duration differs from the source's by more than 10000 ms is
\* classified neither exact nor alternative.
C7_FarDurationRejected ==
    \A i \in Completed :
        (BothDurationsGiven(i) /\ DiffAt(i) > 10000) => (~InExact(i) /\ ~InAlt(i))

\* a < b for two tuples of integers of one length, compared left to right
RECURSIVE LexLess(_, _)
LexLess(a, b) ==
    IF a = <<>> THEN FALSE
    ELSE Head(a) < Head(b) \/ (Head(a) = Head(b) /\ LexLess(Tail(a), Tail(b)))

Bit(b) == IF b THEN 1 ELSE 0

\* the rank of exact candidate a beside exact candidate b: similarity (the two
\* quotients brought to one denominator), album match, track-number match, then the
\* missing-album penalty and the duration difference, lower being better
ExactRank(a, b) ==
    <<a.similarity.num * b.similarity.den, Bit(a.album_match), Bit(a.track_number_match),
      0 - a.missing_data_penalty, 0 - a.duration_diff>>

\* C8: a provider whose results gave exact candidates has one link, the url of an exact
\* candidate no other exact candidate outranks (similarity higher, then album match,
\* then track-number match, then the lower missing-album penalty, then the lower
\* duration difference); a provider without exact candidates has no link.
C8_LinkIsBestExact ==
    pc \in {"ranked", "done"} =>
        IF exact_candidates = <<>>
        THEN Service \notin DOMAIN links
        ELSE /\ Service \in DOMAIN links
             /\ \E k \in 1..Len(exact_candidates) :
                    /\ links[Service] = exact_candidates[k].track.url
                    /\ \A j \in 1..Len(exact_candidates) :
                            ~LexLess(ExactRank(exact_candidates[k], exact_candidates[j]),
                                     ExactRank(exact_candidates[j], exact_candidates[k]))

\* C8's case: two exact candidates of equal similarity, the one whose album matches
\* further from the source's duration than the other, and the link is its url
C8_Witness ==
    /\ pc = "ranked"
    /\ \E j, k \in 1..Len(exact_candidates) :
            /\ SimEq(exact_candidates[j].similarity, exact_candidates[k].similarity)
            /\ exact_candidates[j].album_match
            /\ ~exact_candidates[k].album_match
            /\ exact_candidates[j].duration_diff > exact_candidates[k].duration_diff
            /\ links[Service] = exact_candidates[j].track.url

\* the results of the current provider classified alternative
AlternativeTracks ==
    {i \in 1..Len(results[Service]) : ~IsExact(MeasureAt(i)) /\ IsAlternative(MeasureAt(i))}

\* the alternative candidate made of the result an item of alternatives came from
CandidateOf(item) ==
    LET i == CHOOSE n \in 1..Len(results[Service]) : TrackAt(n).url = item.url
    IN  AltCandidate(source, TrackAt(i), MeasureAt(i), Service)

\* the sort key of alternative a beside alternative b: -similarity (the two quotients
\* brought to one denominator), total penalty, duration difference
AltRank(a, b) ==
    <<0 - a.similarity.num * b.similarity.den, a.total_penalty, a.duration_diff>>

\* C9: a provider's alternatives are the results classified alternative, each once and
\* nothing else, in an order in which (-similarity, total penalty, duration difference)
\* never decreases from one entry to the next; a provider without any has no entry.
C9_AlternativesCompleteAndSorted ==
    pc \in {"ranked", "done"} =>
        IF AlternativeTracks = {}
        THEN Service \notin DOMAIN alternatives
        ELSE /\ Service \in DOMAIN alternatives
             /\ LET items == alternatives[Service]
                IN  /\ Len(items) = Cardinality(AlternativeTracks)
                    /\ {items[k].url : k \in 1..Len(items)}
                         = {TrackAt(i).url : i \in AlternativeTracks}
                    /\ \A k \in 1..Len(items) :
                            items[k] = AltItem(CandidateOf(items[k]), Service)
                    /\ \A k \in 1..(Len(items) - 1) :
                            ~LexLess(AltRank(CandidateOf(items[k + 1]), CandidateOf(items[k])),
                                     AltRank(CandidateOf(items[k]), CandidateOf(items[k + 1])))

\* C9's case: the sort moved a later result ahead of an earlier one
C9_Witness ==
    /\ pc = "ranked"
    /\ Service \in DOMAIN alternatives
    /\ Len(alternatives[Service]) >= 2
    /\ alternatives[Service][1].url[2] > alternatives[Service][2].url[2]

\* C10: subset_similarity(A, B, min) is 0.0 when B is empty or has fewer than min
\* tokens, and otherwise |B \cap A| / |B|, between 0 and 1 and equal to 1 exactly when
\* B is a subset of A; the tokens of A that are not in B do not change it.
C10_SubsetSimilarity ==
    sim_result # NoResult =>
        LET A == sim_source_tokens
            B == sim_candidate_tokens
        IN  /\ (B = {} \/ Cardinality(B) < sim_min) => sim_result.num = 0
            /\ ~(B = {} \/ Cardinality(B) < sim_min) =>
                    /\ sim_result.num = Cardinality(B \cap A)
                    /\ sim_result.den = Cardinality(B)
                    /\ 0 <= sim_result.num
                    /\ sim_result.num <= sim_result.den
                    /\ (sim_result.num = sim_result.den) <=> (B \subseteq A)
            /\ \A A2 \in SUBSET SimTokens :
                    (A2 \cap B = A \cap B) =>
                        SimEq(subset_similarity(A2, B, sim_min), sim_result)

\* C10's case: a candidate set of enough tokens, all of them source tokens, scored 1.0
\* against a source that has more tokens
C10_Witness ==
    /\ sim_result # NoResult
    /\ sim_candidate_tokens # {}
    /\ Cardinality(sim_candidate_tokens) >= sim_min
    /\ sim_candidate_tokens \subseteq sim_source_tokens
    /\ sim_candidate_tokens # sim_source_tokens
    /\ sim_result.num = sim_result.den

\* the tokens of a result's title and artist, and of its title, artist and album
CandidateAltTokens(i) == create_token_set(TrackAt(i).title, TrackAt(i).artist, <<>>)

CandidateExactTokens(i) ==
    create_token_set(TrackAt(i).title, TrackAt(i).artist, TrackAt(i).album)

\* C11: a candidate whose title and artist together yield only one token is classified
\* neither exact nor alternative, whatever the source, the candidate's album and the
\* overlap with the source.
C11_OneTokenNeverClassified ==
    \A i \in Taken :
        Cardinality(CandidateAltTokens(i)) = 1 => (~InExact(i) /\ ~InAlt(i))

\* C11 as amended: a candidate whose title and artist together yield fewer than two
\* tokens is never classified alternative, and a candidate whose title, artist and
\* album together yield fewer than two tokens is never classified exact.
C11_FewTokensNeverClassified ==
    \A i \in Taken :
        /\ Cardinality(CandidateAltTokens(i)) < 2 => ~InAlt(i)
        /\ Cardinality(CandidateExactTokens(i)) < 2 => ~InExact(i)

\* C11's case: an iteration ran to its end on a result without artist and album whose
\* only token is a token of the source, with durations and track numbers that match
C11_Witness ==
    \E i \in Completed :
        /\ Cardinality(CandidateExactTokens(i)) = 1
        /\ CandidateExactTokens(i) \subseteq source_alt_tokens
        /\ MeasureAt(i).checked
        /\ MeasureAt(i).exact_duration_ok
        /\ MeasureAt(i).track_number_match
        /\ ~InExact(i)
        /\ ~InAlt(i)

\* the title or the artist of the source is missing or empty
MalformedSource == ~TruthyStr(source.title) \/ ~TruthyStr(source.artist)

\* C12: for a source whose title or artist is missing or empty the call scores no
\* candidate, does not raise, and returns empty links and empty alternatives.
C12_MalformedSourceNotScored ==
    MalformedSource =>
        /\ Taken = {}
        /\ pc # "raised"
        /\ pc = "done" => (links = <<>> /\ alternatives = <<>>)

\* the search requests of the call, in the order they were sent
SearchRequests == SelectSeq(api_requests, LAMBDA r : r.to = "search")

\* C13: search_track of Spotify, iTunes and YouTube never raises; it returns an empty
\* list when the credentials are missing (and then sends nothing), when the token
\* request fails, and when its search request (for Spotify: the last one it sent)
\* ends in a network error, a non-success status or a body that cannot be read.
C13_SearchNeverRaises ==
    /\ api_pc # "raised"
    /\ \A i \in 1..Len(api_requests) :
            api_requests[i].answer \in FailureKinds => api_requests[i].found = <<>>
    /\ api_pc = "returned" =>
            /\ (api \in {"spotify", "youtube"} /\ ~api_credentials) =>
                    (api_out = <<>> /\ api_requests = <<>>)
            /\ (\E i \in 1..Len(api_requests) :
                    api_requests[i].to = "token" /\ api_requests[i].answer # "token") =>
                    (api_out = <<>> /\ SearchRequests = <<>>)
            /\ (/\ SearchRequests # <<>>
                /\ SearchRequests[Len(SearchRequests)].answer \in FailureKinds) =>
                    api_out = <<>>

\* C13's case: a Spotify search whose three requests ended in a network error, a
\* non-success status and an unreadable body returned the empty list
C13_Witness ==
    /\ api = "spotify"
    /\ api_pc = "returned"
    /\ api_out = <<>>
    /\ Len(SearchRequests) = 3
    /\ {SearchRequests[i].answer : i \in 1..3} \subseteq FailureKinds
    /\ Cardinality({SearchRequests[i].answer : i \in 1..3}) = 3
    /\ "wrong_shape" \in {SearchRequests[i].answer : i \in 1..3}

\* the request names a preferred platform other than the platform of its url
PrefersOtherPlatform ==
    TruthyName(user_pref) /\ platform # NoneName /\ user_pref # platform

\* C14: a request whose preferred platform is set and differs from the source
\* platform, and for which no link of the preferred platform exists after the lookup
\* (whether or not title and artist were resolved), is answered with the fallback HTML
\* page and status 200.
C14_FallbackPageWhenNoLink ==
    (hpc = "responded" /\ PrefersOtherPlatform /\ user_pref \notin DOMAIN h_links) =>
        (response.kind = "html" /\ response.status_code = 200)

\* C15: a 302 redirect goes to the request's url or to the link find_equivalent_links
\* returned for the preferred platform, and never to the url of an alternative.
C15_RedirectOnlyToOriginalOrExactLink ==
    response.kind = "redirect" =>
        /\ response.status_code = 302
        /\ \/ response.url = url
           \/ /\ pc = "done"
              /\ user_pref \in DOMAIN links
              /\ response.url = links[user_pref]
        /\ \A p \in DOMAIN alternatives :
                \A k \in 1..Len(alternatives[p]) : alternatives[p][k].url # response.url

\* C15's case: the preferred platform has an exact link and alternatives, and the
\* redirect goes to the link
C15_Witness ==
    /\ response.kind = "redirect"
    /\ pc = "done"
    /\ user_pref \in DOMAIN alternatives
    /\ user_pref \in DOMAIN links
    /\ response.url = links[user_pref]
    /\ response.url # url

\* C16: a request with a url is answered with a 302 redirect to the exact link of the
\* preferred platform when the preference is set, differs from the source platform and
\* find_equivalent_links returned such a link, and with a 302 redirect to its own url
\* when no preference is set or the preference is the source platform.
C16_RedirectByPreference ==
    (hpc = "responded" /\ url # NoUrl) =>
        /\ (PrefersOtherPlatform /\ pc = "done" /\ user_pref \in DOMAIN links) =>
                /\ response.kind = "redirect"
                /\ response.status_code = 302
                /\ response.url = links[user_pref]
        /\ (~TruthyName(user_pref) \/ user_pref = platform) =>
                /\ response.kind = "redirect"
                /\ response.status_code = 302
                /\ response.url = url

\* str.upper(): a lower-case letter becomes its upper-case letter, the sharp s "SS"
RECURSIVE Upper(_)
Upper(s) ==
    IF s = <<>> THEN <<>>
    ELSE (IF Head(s) = SharpS THEN <<"S", "S">>
          ELSE IF Head(s) \in DOMAIN UpperOf THEN <<UpperOf[Head(s)]>>
          ELSE <<Head(s)>>)
         \o Upper(Tail(s))

\* the other case of a letter that has one, the character itself otherwise
OtherCase(c) ==
    IF c \in DOMAIN UpperOf THEN UpperOf[c]
    ELSE IF c \in Uppers THEN LowerChar(c)
    ELSE c

\* s re-cased: upper-cased, lower-cased, or with the case of some of its letters changed
Recased(s) ==
    {Upper(s), Lower(s)}
    \cup {r \in [1..Len(s) -> TokAlphabet \cup Uppers \cup DOMAIN UpperOf] :
            \A i \in 1..Len(s) : r[i] \in {s[i], OtherCase(s[i])}}

\* s without its punctuation characters
WithoutPunctuation(s) == SelectSeq(s, LAMBDA c : c \notin Punctuation)

\* the words of s written in parentheses or brackets of their own: "(" word ")"
\* between spaces or the ends of s, the word made of letters only
BracketedWords(s) ==
    {SubSeq(s, i + 1, j - 1) : i \in 1..Len(s), j \in 1..Len(s)} \cap
    {w \in TokStrings :
        /\ w # <<>>
        /\ \A k \in 1..Len(w) : ~IsSpace(w[k]) /\ w[k] \notin Punctuation
        /\ \E i \in 1..Len(s) :
                /\ i + Len(w) + 1 <= Len(s)
                /\ s[i] \in {"(", "["}
                /\ s[i + Len(w) + 1] \in {")", "]"}
                /\ SubSeq(s, i + 1, i + Len(w)) = w
                /\ (i = 1 \/ IsSpace(s[i - 1]))
                /\ (i + Len(w) + 1 = Len(s) \/ IsSpace(s[i + Len(w) + 2]))}

\* C17: create_token_set(s, "", "") is the same set for s re-cased and for s without
\* its punctuation characters, and for normalize_string(s); a word in parentheses or
\* brackets is a token of it unless it is a stop word, and no stop word is.
C17_TokenSetInvariance ==
    tok_result # NoTokens =>
        /\ \A r \in Recased(tok_s) : create_token_set(r, <<>>, <<>>) = tok_result
        /\ create_token_set(WithoutPunctuation(tok_s), <<>>, <<>>) = tok_result
        /\ create_token_set(normalize_string(tok_s), <<>>, <<>>) = tok_result
        /\ \A w \in BracketedWords(tok_s) : Lower(w) \in tok_result \/ Lower(w) \in stop_words
        /\ tok_result \cap stop_words = {}

\* the place of a Spotify query in the order strict, loose, title only
QueryRank(query) ==
    CASE query = "strict" -> 1
      [] query = "loose" -> 2
      [] query = "title_only" -> 3

\* the texts of title and artist that are not empty, in this order
GivenTexts(title, artist) ==
    SelectSeq(<<title, artist>>, LAMBDA text : text # <<>> /\ text # NoneStr)

\* C18: SpotifyAPI.search_track sends at most three search requests, the strict fielded
\* query first, then the unfielded title and artist, then the title alone; it sends
\* nothing after a request that found something and returns what that request found;
\* it returns the empty list only when no request it sent found anything.
C18_SpotifyQueryOrder ==
    api = "spotify" =>
        LET sent == SearchRequests
            last == sent[Len(sent)]
        IN  /\ Len(sent) <= 3
            /\ sent # <<>> => sent[1].query = "strict"
            /\ \A i \in 1..(Len(sent) - 1) :
                    /\ QueryRank(sent[i].query) < QueryRank(sent[i + 1].query)
                    /\ sent[i].found = <<>>
            /\ \A i \in 1..Len(sent) :
                    LET texts == [k \in 1..Len(sent[i].q) |-> sent[i].q[k][2]]
                        fields == {sent[i].q[k][1] : k \in 1..Len(sent[i].q)}
                    IN  CASE sent[i].query = "strict" ->
                                /\ texts = GivenTexts(api_title, api_artist)
                                /\ fields \subseteq {"track", "artist"}
                                /\ Cardinality(fields) = Len(texts)
                          [] sent[i].query = "loose" ->
                                /\ texts = GivenTexts(api_title, api_artist)
                                /\ fields = {""}
                          [] sent[i].query = "title_only" ->
                                /\ texts = <<api_title>>
                                /\ api_title # <<>>
                                /\ fields = {""}
            /\ (sent # <<>> /\ last.found # <<>>) =>
                    (api_pc = "returned" /\ api_out = last.found)
            /\ api_pc = "returned" =>
                    IF api_out # <<>>
                    THEN sent # <<>> /\ api_out = last.found
                    ELSE \A i \in 1..Len(sent) : sent[i].found = <<>>

\* C18's case: the strict and the loose query found nothing (one failed, one had no
\* items), the title-only query did, and its results were returned
C18_Witness ==
    /\ api = "spotify"
    /\ api_pc = "returned"
    /\ Len(SearchRequests) = 3
    /\ SearchRequests[1].answer \in FailureKinds
    /\ SearchRequests[2].answer = "ok"
    /\ SearchRequests[2].found = <<>>
    /\ SearchRequests[3].found # <<>>
    /\ api_out = SearchRequests[3].found

====
